---- MODULE Spec2Model ----
(***************************************************************************)
(* ElasticServer.async_bulk of connectors/byoei.py: one sync pass made of  *)
(* three asyncio tasks (get_docs, get_attachments, _bulk) that talk        *)
(* through the queue `stream`, plus the enrichment units (lazy_download    *)
(* tasks kept in self._downloads) and the bulk calls in flight.            *)
(*                                                                         *)
(* asyncio is cooperative: a task runs until an await that suspends.  Each *)
(* action below is one such run.  stream.put never suspends (the queue is  *)
(* unbounded), queue.get suspends only on an empty queue, awaiting a task  *)
(* that is done does not suspend, asyncio.sleep(0) always does.            *)
(*                                                                         *)
(* Two more components have their own specifications, each with the sync   *)
(* pass left idle: SpecMgmt for ESManagementClient provisioning an index   *)
(* (es/management_client.py: mappings merge, settings requests), and       *)
(* SpecAgent for ConnectorsAgentConfigurationWrapper (agent/config.py).    *)
(* SpecNoIndex is the sync pass in front of an index that does not exist.  *)
(***************************************************************************)
EXTENDS Integers, Sequences, FiniteSets, TLC

\* ---------------------------------------------------------------- bounds
\* Longest feed a pass consumes.
MaxFeed == 2
\* self.chunk_size, the flush threshold (500 in __init__, an attribute the
\* caller may set); scaled down so that full batches happen.
ChunkSize == 2
\* Passes run on one ElasticServer (SpecTwice only).
MaxPasses == 2

\* ---------------------------------------------------------------- values
Ids == {"id1", "id2"}
\* Version tokens a source may put in doc["timestamp"]; "" is the empty string.
Tokens == {"", "t0"}
\* doc has no "timestamp" key
NoTs == "<no timestamp>"
\* id is not in the index
Absent == "<absent>"
\* document in the index without a "timestamp" field
NoField == "<no field>"
\* What lazy_download is: None, or a coroutine function.
DlKinds == {"none", "callable"}
\* How a lazy_download(doit=True, ...) call ends: it returns a dict, returns
\* None, or raises.
Outcomes == {"data", "empty", "raised"}
\* Successive values of iso_utc().
NowTable == <<"now1", "now2", "now3", "now4", "now5", "now6", "now7", "now8",
              "now9", "now10", "now11", "now12">>

VARIABLES
    index,                \* the remote index: id -> timestamp, Absent or NoField;
                          \* NoIndex when it does not exist
    passNo,               \* number of async_bulk calls started
    passState,            \* "idle", "running", "returned", "raised", and
                          \* "raised_scan" when the snapshot read raised
    result,               \* what async_bulk returned
    existing_timestamps,  \* snapshot: id -> timestamp (domain = existing_ids)
    feed,                 \* the documents the generator yields (first pass: so far)
    fetched,              \* how many of them get_docs received in this pass
    seen_ids,
    clock,                \* number of iso_utc() calls so far
    skipCalls,            \* feed positions whose lazy_download(doit=False) ran
    downloads,            \* self._downloads: the enrichment tasks, in order
    stream,               \* every item put on the queue in this pass, in order
    popped,               \* how many of them queue.get() has returned
    docsPc,               \* get_docs: "idle","loop","done","failed_feed","failed_call"
    attPc,                \* get_attachments: "idle","run","done","failed"
    attPos,               \* position in self._downloads of the last unit awaited
    bulk,                 \* _bulk: [pc, batch, ops, docs_ended, downloads_ended]
    mgmt,                 \* an ESManagementClient, the index it provisions and
                          \* the call it is in (es/management_client.py)
    agent                 \* a ConnectorsAgentConfigurationWrapper and the last
                          \* try_update made on it (agent/config.py)

vars == <<index, passNo, passState, result, existing_timestamps, feed, fetched,
          seen_ids, clock, skipCalls, downloads, stream, popped, docsPc, attPc,
          attPos, bulk, mgmt, agent>>

\* ---------------------------------------------------------------- helpers
existing_ids == DOMAIN existing_timestamps

END_DOCS == [marker |-> "END_DOCS"]
END_DOWNLOADS == [marker |-> "END_DOWNLOADS"]
IsMarker(item, name) == "marker" \in DOMAIN item /\ item.marker = name
IsIntent(item) == "_op_type" \in DOMAIN item
IsUpsert(item) == IsIntent(item) /\ item._op_type = "update"
IsDelete(item) == IsIntent(item) /\ item._op_type = "delete"

\* dict.get(key, default)
DictGet(d, key, default) == IF key \in DOMAIN d THEN d[key] ELSE default

iso_utc(c) == NowTable[c + 1]

\* The ids and timestamps async_scan yields for the index.
Snapshot(idx) ==
    [i \in {j \in DOMAIN idx : idx[j] # Absent} |-> idx[i]]

\* An index that was never created holds nothing, not even its ids.
NoIndex == <<>>
\* byoei.py 67: client.indices.get(index=index) answers, or raises
\* ElasticNotFoundError.
IndicesGet(idx) == IF DOMAIN idx = {} THEN "ElasticNotFoundError" ELSE "ok"
\* byoei.py 62-76: get_existing_ids returns at once, having yielded nothing,
\* when indices.get raised ElasticNotFoundError; otherwise it scans.
get_existing_ids(idx) ==
    IF IndicesGet(idx) = "ElasticNotFoundError" THEN <<>> ELSE Snapshot(idx)

UpsertIntent(id, doc) ==
    [_op_type |-> "update", _id |-> id, doc |-> doc, doc_as_upsert |-> TRUE]
DeleteIntent(id) == [_op_type |-> "delete", _id |-> id]

\* The document get_docs emits for feed position n (src is the position, kept
\* to tell documents of the same id apart).
PrimaryDoc(id, ts, n) == [id |-> id, timestamp |-> ts, src |-> n]
\* An enrichment that also writes the document's own "id" field.
AttachmentDoc_Stale(ts, n) ==
    [_timestamp |-> ts, text |-> "xx", src |-> n, id |-> "stale"]
\* What a lazy_download(doit=True, timestamp=ts) dict holds once _id is popped.
AttachmentDoc(ts, n) == [_timestamp |-> ts, text |-> "xx", src |-> n]

\* Never skip: every document with a timestamp is re-sent.
Unchanged_Never(snapshot, doc) == FALSE
\* byoei.py 161-162: the document has a timestamp equal to the snapshot's.
Unchanged(snapshot, doc) ==
    /\ doc.ts # NoTs
    /\ DictGet(snapshot, doc.id, "") = doc.ts

\* Forgets the seen_ids test: deletes every existing id.
ToDelete_All(existing, seen) == existing
\* byoei.py 189-191: ids of the snapshot the feed did not return.
ToDelete(existing, seen) == {i \in existing : i \notin seen}

\* The orders in which a for loop may walk a set.
Orders(S) ==
    {s \in [1..Cardinality(S) -> S] : \A i, j \in DOMAIN s : i # j => s[i] # s[j]}

\* ---------------------------------------------------------------- _bulk
\* asyncio.create_task(batch_bulk(list(batch))); batch.clear()
Dispatch(w) ==
    [w EXCEPT !.ops = Append(@, [operations |-> w.batch, state |-> "inflight"]),
              !.batch = <<>>]

\* byoei.py 124-128: after the loop, flush what is left and gather the calls.
BulkFinish(w) ==
    LET f == IF Len(w.batch) > 0 THEN Dispatch(w) ELSE w
    IN  [f EXCEPT !.pc = "gathering"]

\* byoei.py 112-122: the action line, the body, the flush test.  A dict
\* without a "doc" key raises KeyError at doc["doc"], after the action line
\* was appended.
BulkAppend(w, doc) ==
    LET head == [action |-> doc._op_type, _id |-> doc._id]
        b1 == Append(w.batch, head)
    IN  IF doc._op_type = "update"
        THEN LET b2 == Append(b1, [doc |-> doc.doc, doc_as_upsert |-> TRUE])
                 w2 == [w EXCEPT !.batch = b2]
             IN  IF Len(b2) >= ChunkSize * 2 THEN Dispatch(w2) ELSE w2
        ELSE IF "doc" \in DOMAIN doc
        THEN LET b2 == Append(b1, [doc |-> doc.doc])
                 w2 == [w EXCEPT !.batch = b2]
             IN  IF Len(b2) >= ChunkSize * 2 THEN Dispatch(w2) ELSE w2
        ELSE [w EXCEPT !.batch = b1, !.pc = "failed"]

\* byoei.py 100-122: one turn of the while loop on the item queue.get() returned.
BulkGet(w, doc) ==
    LET de == w.docs_ended \/ IsMarker(doc, "END_DOCS")
        dle == w.downloads_ended \/ IsMarker(doc, "END_DOWNLOADS")
        w1 == [w EXCEPT !.docs_ended = de, !.downloads_ended = dle]
    IN  IF de /\ dle THEN BulkFinish(w1)
        ELSE IF IsMarker(doc, "END_DOCS") \/ IsMarker(doc, "END_DOWNLOADS") THEN w1
        ELSE BulkAppend(w1, doc)

\* The writer runs until the queue is empty (queue.get suspends) or it leaves
\* the loop; n counts the items it got.
RECURSIVE BulkDrain(_, _, _)
BulkDrain(w, q, n) ==
    IF q = <<>> \/ w.pc # "draining" THEN [w |-> w, n |-> n]
    ELSE BulkDrain(BulkGet(w, Head(q)), Tail(q), n + 1)

BulkStart ==
    [pc |-> "draining", batch |-> <<>>, ops |-> <<>>,
     docs_ended |-> FALSE, downloads_ended |-> FALSE]

\* What a bulk call does to the index: update merges the body into the
\* document (creating it when absent), delete removes it.
RECURSIVE ApplyOps(_, _)
ApplyOps(idx, operations) ==
    IF operations = <<>> THEN idx
    ELSE LET head == operations[1]
             body == operations[2]
             id == head._id
             new == IF head.action = "delete" THEN Absent
                    ELSE IF "timestamp" \in DOMAIN body.doc THEN body.doc.timestamp
                    ELSE IF idx[id] = Absent THEN NoField
                    ELSE idx[id]
         IN  ApplyOps([idx EXCEPT ![id] = new], SubSeq(operations, 3, Len(operations)))

\* byoei.py 90: client.bulk(operations=...) on the index; the first write to
\* an index that does not exist creates it.
ClientBulk(idx, operations) ==
    ApplyOps(IF DOMAIN idx = {} THEN [i \in Ids |-> Absent] ELSE idx, operations)

Queue == SubSeq(stream, popped + 1, Len(stream))

\* byoei.py 134: asyncio.Queue() is built with the default maxsize, 0, which
\* asyncio reads as "no limit": full() is never true and put never waits.
QueueMaxsize == 0
QueueFull == QueueMaxsize > 0 /\ Len(Queue) >= QueueMaxsize

\* ---------------------------------------------------------------- state
\* No management client and no agent configuration wrapper take part in a
\* sync pass.
NoClient == [pc |-> "none"]
NoWrapper == [pc |-> "none"]

FeedItems == [id : Ids, ts : Tokens \cup {NoTs}, dl : DlKinds]

NoPass ==
    /\ existing_timestamps = <<>>
    /\ fetched = 0
    /\ seen_ids = {}
    /\ skipCalls = {}
    /\ stream = <<>>
    /\ popped = 0
    /\ docsPc = "idle"
    /\ attPc = "idle"
    /\ attPos = 0
    /\ bulk = [BulkStart EXCEPT !.pc = "idle"]

\* The indexes a first pass may find: no document, one, or both, at
\* timestamp "t0" (the ids are interchangeable, so one of the two one-document
\* indexes stands for both).
StartIndexes ==
    {[i \in Ids |-> IF i \in S THEN "t0" ELSE Absent] : S \in {{}, {"id1"}, Ids}}

\* A constructed ElasticServer (byoei.py 22-33) in front of such an index.
Init ==
    /\ index \in StartIndexes
    /\ passNo = 0
    /\ passState = "idle"
    /\ result = <<>>
    /\ feed = <<>>
    /\ clock = 0
    /\ downloads = <<>>
    /\ NoPass
    /\ mgmt = NoClient
    /\ agent = NoWrapper

\* byoei.py 130-147, 215-220: the snapshot is read, then the three tasks are
\* created.  stream, seen_ids and the writer's state are new in each pass;
\* self._downloads is not.
StartPass ==
    /\ passNo' = passNo + 1
    /\ passState' = "running"
    /\ existing_timestamps' = get_existing_ids(index)
    /\ fetched' = 0
    /\ seen_ids' = {}
    /\ skipCalls' = {}
    /\ stream' = <<>>
    /\ popped' = 0
    /\ docsPc' = "loop"
    /\ attPc' = "run"
    /\ attPos' = 0
    /\ bulk' = BulkStart
    /\ UNCHANGED <<mgmt, agent, index, result, feed, clock, downloads>>

AsyncBulk ==
    /\ passNo = 0
    /\ StartPass

\* Creates the three tasks and only then lets the snapshot error out.
SnapshotFails_TasksFirst ==
    /\ passNo = 0
    /\ passNo' = 1
    /\ passState' = "raised_scan"
    /\ docsPc' = "loop"
    /\ attPc' = "run"
    /\ bulk' = BulkStart
    /\ UNCHANGED <<mgmt, agent,
                   index, result, existing_timestamps, feed, fetched, seen_ids,
                   clock, skipCalls, downloads, stream, popped, attPos>>
\* byoei.py 137-139: the snapshot loop runs in async_bulk itself, before line
\* 216 creates the first task.  An error of indices.get other than not-found,
\* or of the scan, leaves async_bulk there: no queue item, no task.
SnapshotFails ==
    /\ passNo = 0
    /\ passNo' = 1
    /\ passState' = "raised_scan"
    /\ UNCHANGED <<mgmt, agent,
                   index, result, existing_timestamps, feed, fetched, seen_ids,
                   clock, skipCalls, downloads, stream, popped, docsPc, attPc,
                   attPos, bulk>>

\* A second call on the same ElasticServer, after the first returned, with
\* the same feed.
AsyncBulkAgain ==
    /\ passNo >= 1
    /\ passNo < MaxPasses
    /\ passState = "returned"
    /\ StartPass

\* byoei.py 222: gather(*ops) hands the first exception of a task to the
\* caller of async_bulk; it cancels nothing, the other tasks stay scheduled.
Gather(failed) ==
    passState' = IF failed /\ passState = "running" THEN "raised" ELSE passState

\* ---------------------------------------------------------------- get_docs
\* byoei.py 150-185 for one document of the feed, up to the next suspension.
Classify(d) ==
    LET n == fetched + 1
    IN
    /\ fetched' = n
    /\ seen_ids' = seen_ids \cup {d.id}
    /\ IF Unchanged(existing_timestamps, d)
       THEN \* await lazy_download(doit=False): None is not callable
            /\ IF d.dl = "none"
               THEN docsPc' = "failed_call" /\ skipCalls' = skipCalls
               ELSE docsPc' = docsPc /\ skipCalls' = skipCalls \cup {n}
            /\ UNCHANGED <<clock, downloads, stream>>
       ELSE LET ts == IF d.ts = NoTs THEN iso_utc(clock) ELSE d.ts
            IN
            /\ clock' = IF d.ts = NoTs THEN clock + 1 ELSE clock
            /\ downloads' =
                 IF d.dl # "none"
                 THEN Append(downloads,
                        [pass |-> passNo, src |-> n, id |-> d.id, timestamp |-> ts,
                         state |-> "pending", has_id |-> TRUE])
                 ELSE downloads
            /\ stream' = Append(stream, UpsertIntent(d.id, PrimaryDoc(d.id, ts, n)))
            /\ UNCHANGED <<docsPc, skipCalls>>

\* What the generator may yield next.  While nothing tells the two ids apart
\* (no document received yet, and a snapshot that holds both ids at the same
\* timestamp or neither), the document is taken to be "id1": the runs that
\* start with "id2" are the same runs with the ids swapped.
NextItems ==
    IF /\ feed = <<>>
       /\ existing_ids \in {{}, Ids}
       /\ \A i, j \in existing_ids : existing_timestamps[i] = existing_timestamps[j]
    THEN {d \in FeedItems : d.id = "id1"}
    ELSE FeedItems

\* The generator yields its next document: in the first pass, whatever the
\* source produces.
GetDocsNext ==
    /\ docsPc = "loop"
    /\ passNo = 1
    /\ Len(feed) < MaxFeed
    /\ \E d \in NextItems :
          /\ feed' = Append(feed, d)
          /\ Classify(d)
    /\ Gather(docsPc' = "failed_call")
    /\ UNCHANGED <<mgmt, agent,
                   index, passNo, result, existing_timestamps, popped, attPc,
                   attPos, bulk>>

\* A later pass over the unchanged feed gets the same documents again.
GetDocsAgain ==
    /\ docsPc = "loop"
    /\ passNo > 1
    /\ fetched < Len(feed)
    /\ feed' = feed
    /\ Classify(feed[fetched + 1])
    /\ Gather(docsPc' = "failed_call")
    /\ UNCHANGED <<mgmt, agent,
                   index, passNo, result, existing_timestamps, popped, attPc,
                   attPos, bulk>>

\* byoei.py 187-194: the generator is exhausted; the deletes and the marker
\* are put without suspending.
GetDocsEnd ==
    /\ docsPc = "loop"
    /\ passNo > 1 => fetched = Len(feed)
    /\ \E order \in Orders(ToDelete(existing_ids, seen_ids)) :
          stream' = stream \o [i \in DOMAIN order |-> DeleteIntent(order[i])]
                           \o <<END_DOCS>>
    /\ docsPc' = "done"
    /\ UNCHANGED <<mgmt, agent,
                   index, passNo, passState, result, existing_timestamps, feed,
                   fetched, seen_ids, clock, skipCalls, downloads, popped, attPc,
                   attPos, bulk>>

\* byoei.py 150: the generator raises (fake_sources.py 50-51); nothing in
\* get_docs catches it.
GetDocsRaise ==
    /\ docsPc = "loop"
    /\ passNo = 1
    /\ docsPc' = "failed_feed"
    /\ Gather(TRUE)
    /\ UNCHANGED <<mgmt, agent,
                   index, passNo, result, existing_timestamps, feed,
                   fetched, seen_ids, clock, skipCalls, downloads, stream, popped,
                   attPc, attPos, bulk>>

\* ---------------------------------------------------------------- units
\* A task made at byoei.py 171-173 runs lazy_download(doit=True, ...) to its end.
DownloadRun ==
    \E k \in DOMAIN downloads, o \in Outcomes :
        /\ downloads[k].state = "pending"
        /\ downloads' = [downloads EXCEPT ![k].state = o]
        /\ UNCHANGED <<mgmt, agent,
                       index, passNo, passState, result, existing_timestamps, feed,
                       fetched, seen_ids, clock, skipCalls, stream, popped, docsPc,
                       attPc, attPos, bulk>>

\* ---------------------------------------------------------------- get_attachments
\* byoei.py 198-201: results that are None are passed over without suspending.
RECURSIVE NextDownload(_, _)
NextDownload(dls, p) ==
    IF p <= Len(dls) /\ dls[p].state = "empty" THEN NextDownload(dls, p + 1) ELSE p

\* byoei.py 198-213, from one suspension to the next.  The for loop ends when
\* the list has no further element at that moment.
GetAttachments ==
    /\ attPc = "run"
    /\ LET p == NextDownload(downloads, attPos + 1)
       IN  IF p > Len(downloads)
           THEN /\ stream' = Append(stream, END_DOWNLOADS)
                /\ attPc' = "done"
                /\ attPos' = Len(downloads)
                /\ downloads' = downloads
           ELSE /\ downloads[p].state # "pending"
                /\ attPos' = p
                /\ IF downloads[p].state = "raised" \/ ~downloads[p].has_id
                   THEN \* await download raises, or data.pop("_id") does
                        /\ attPc' = "failed"
                        /\ UNCHANGED <<stream, downloads>>
                   ELSE /\ stream' = Append(stream,
                              UpsertIntent(downloads[p].id,
                                  AttachmentDoc(downloads[p].timestamp, downloads[p].src)))
                        /\ downloads' = [downloads EXCEPT ![p].has_id = FALSE]
                        /\ attPc' = attPc
    /\ Gather(attPc' = "failed")
    /\ UNCHANGED <<mgmt, agent,
                   index, passNo, result, existing_timestamps, feed,
                   fetched, seen_ids, clock, skipCalls, popped, docsPc, bulk>>

\* ---------------------------------------------------------------- _bulk
\* byoei.py 98-126: the writer wakes up on a non-empty queue.
Bulk ==
    /\ bulk.pc = "draining"
    /\ Queue # <<>>
    /\ LET r == BulkDrain(bulk, Queue, 0)
       IN  /\ bulk' = r.w
           /\ popped' = popped + r.n
    /\ Gather(bulk'.pc = "failed")
    /\ UNCHANGED <<mgmt, agent,
                   index, passNo, result, existing_timestamps, feed,
                   fetched, seen_ids, clock, skipCalls, downloads, stream, docsPc,
                   attPc, attPos>>

\* byoei.py 87-96: one client.bulk call completes.
BatchBulk ==
    \E k \in DOMAIN bulk.ops :
        /\ bulk.ops[k].state = "inflight"
        /\ bulk' = [bulk EXCEPT !.ops[k].state = "done"]
        /\ index' = ClientBulk(index, bulk.ops[k].operations)
        /\ UNCHANGED <<mgmt, agent,
                       passNo, passState, result, existing_timestamps, feed,
                       fetched, seen_ids, clock, skipCalls, downloads, stream,
                       popped, docsPc, attPc, attPos>>

\* Leaves the gather without waiting for the calls.
BulkGathered_NoWait ==
    /\ bulk.pc = "gathering"
    /\ bulk' = [bulk EXCEPT !.pc = "done"]
    /\ UNCHANGED <<mgmt, agent,
                   index, passNo, passState, result, existing_timestamps, feed,
                   fetched, seen_ids, clock, skipCalls, downloads, stream, popped,
                   docsPc, attPc, attPos>>
\* byoei.py 128: gather(*ops) returns once every call is done.
BulkGathered ==
    /\ bulk.pc = "gathering"
    /\ \A k \in DOMAIN bulk.ops : bulk.ops[k].state = "done"
    /\ bulk' = [bulk EXCEPT !.pc = "done"]
    /\ UNCHANGED <<mgmt, agent,
                   index, passNo, passState, result, existing_timestamps, feed,
                   fetched, seen_ids, clock, skipCalls, downloads, stream, popped,
                   docsPc, attPc, attPos>>

\* ---------------------------------------------------------------- async_bulk
\* byoei.py 225: res = {}
EmptyDict == <<>>

\* byoei.py 222-226: the three tasks are done; the value returned is dict({}).
AsyncBulkReturn ==
    /\ passState = "running"
    /\ docsPc = "done" /\ attPc = "done" /\ bulk.pc = "done"
    /\ passState' = "returned"
    /\ result' = EmptyDict
    /\ UNCHANGED <<mgmt, agent,
                   index, passNo, existing_timestamps, feed, fetched, seen_ids,
                   clock, skipCalls, downloads, stream, popped, docsPc, attPc,
                   attPos, bulk>>

Next ==
    \/ AsyncBulk
    \/ SnapshotFails
    \/ GetDocsNext
    \/ GetDocsEnd
    \/ GetDocsRaise
    \/ DownloadRun
    \/ GetAttachments
    \/ Bulk
    \/ BatchBulk
    \/ BulkGathered
    \/ AsyncBulkReturn

Spec == Init /\ [][Next]_vars

NextTwice ==
    \/ Next
    \/ AsyncBulkAgain
    \/ GetDocsAgain

SpecTwice == Init /\ [][NextTwice]_vars

\* The same ElasticServer in front of an index that was never created.
InitNoIndex ==
    /\ index = NoIndex
    /\ passNo = 0
    /\ passState = "idle"
    /\ result = <<>>
    /\ feed = <<>>
    /\ clock = 0
    /\ downloads = <<>>
    /\ NoPass
    /\ mgmt = NoClient
    /\ agent = NoWrapper

SpecNoIndex == InitNoIndex /\ [][Next]_vars

\* ================================================================
\* es/management_client.py: ESManagementClient provisioning a content index.
\* A JSON value is a scalar or a mapping (a dict); a list counts as a scalar,
\* it is no Mapping for isinstance.
Scalar(v) == [kind |-> "scalar", v |-> v]
Dict(items) == [kind |-> "dict", items |-> items]
IsMapping(x) == x.kind = "dict"
EmptyItems == <<>>

\* The dicts with one entry key -> v for v in values, and the empty one.
Opt(key, values) == {EmptyItems} \cup {key :> v : v \in values}

\* Field definitions, and the "properties" of a mappings document: up to two
\* fields, each a (malformed) scalar or a definition with or without a type.
FieldDefs == {Dict(t) : t \in Opt("type", {Scalar("text"), Scalar("keyword")})}
FieldValues == {Scalar("text")} \cup FieldDefs
Properties ==
    {Dict(t @@ b) : t \in Opt("title", FieldValues), b \in Opt("body", FieldValues)}
\* Mappings documents: what an index holds and what a caller may request.
AllMappings ==
    {Dict(d @@ t @@ p @@ m) :
        d \in Opt("dynamic", {Scalar("strict")}),
        t \in Opt("dynamic_templates", {Scalar("templates")}),
        p \in Opt("properties", {Scalar("none")} \cup Properties),
        m \in Opt("_meta", {Dict("version" :> Scalar("1"))})}

\* The `index` argument of ensure_content_index_settings: the index as
\* indices.get returned it.
IndexArgs ==
    { EmptyItems,
      "settings" :> EmptyItems,
      "settings" :> ("index" :> EmptyItems),
      "settings" :> ("index" :> ("analysis" :> "analyzers")) }

\* management_client.py 41-49: the values of key in the maps that hold it, in
\* order, up to the first one that is no Mapping.
RECURSIVE TakeMappings(_, _, _)
TakeMappings(maps, key, i) ==
    IF i > Len(maps) THEN <<>>
    ELSE IF key \notin DOMAIN maps[i] THEN TakeMappings(maps, key, i + 1)
    ELSE IF IsMapping(maps[i][key])
         THEN <<maps[i][key].items>> \o TakeMappings(maps, key, i + 1)
    ELSE <<>>

\* ChainMap.__getitem__: the value of the first map that holds the key.
ChainMapGet(maps, key) ==
    LET first == CHOOSE i \in DOMAIN maps :
                    /\ key \in DOMAIN maps[i]
                    /\ \A j \in 1..(i - 1) : key \notin DOMAIN maps[j]
    IN  maps[first][key]

\* A plain ChainMap: the first value, never a view in depth.
DeepChainMapGet_Shallow(maps, key) == ChainMapGet(maps, key)
\* management_client.py 35-51: _DeepChainMap.__getitem__.
DeepChainMapGet(maps, key) ==
    LET value == ChainMapGet(maps, key)
    IN  IF ~IsMapping(value) THEN value
        ELSE [kind |-> "chain", maps |-> TakeMappings(maps, key, 1)]

\* management_client.py 53-58: _DeepChainMap.to_dict.
RECURSIVE to_dict(_)
to_dict(maps) ==
    Dict([k \in UNION {DOMAIN maps[i] : i \in DOMAIN maps} |->
            LET v == DeepChainMapGet(maps, k)
            IN  IF v.kind = "chain" THEN to_dict(v.maps) ELSE v])

\* management_client.py 115-125: the mappings wanted for the index.
DesiredMappings(existing_mappings, mappings) ==
    IF DOMAIN existing_mappings.items # {}
    THEN to_dict(<<existing_mappings.items, mappings.items>>)
    ELSE mappings

\* management_client.py 128-134: the arguments of indices.put_mapping.
PutMappingArgs(desired_mappings) ==
    Dict([k \in {"dynamic", "dynamic_templates", "properties"} |->
            CASE k = "dynamic" ->
                    DictGet(desired_mappings.items, "dynamic", Scalar("False"))
              [] k = "dynamic_templates" ->
                    DictGet(desired_mappings.items, "dynamic_templates", Scalar("[]"))
              [] k = "properties" ->
                    DictGet(desired_mappings.items, "properties", Dict(EmptyItems))])

\* Always sends the settings.
NeedsSettings_Always(idx) == TRUE
\* management_client.py 146-149: "analysis" not in existing_settings.get("index", {})
NeedsSettings(idx) ==
    LET existing_settings == DictGet(idx, "settings", EmptyItems)
    IN  "analysis" \notin DOMAIN DictGet(existing_settings, "index", EmptyItems)

\* Every remote request goes through self._retrier.execute_with_retry; a
\* request stands for that whole retried call, which ends well or raises.
Request(name, args) == [name |-> name, args |-> args]
NoArgs == Scalar("-")

\* A client (management_client.py 62-79) of a serverless or a stateful
\* deployment, in front of an open index that holds some mappings.
InitMgmt ==
    /\ index = NoIndex
    /\ passNo = 0
    /\ passState = "idle"
    /\ result = <<>>
    /\ feed = <<>>
    /\ clock = 0
    /\ downloads = <<>>
    /\ NoPass
    /\ agent = NoWrapper
    /\ \E sl \in BOOLEAN, em \in AllMappings :
          mgmt = [pc |-> "idle", serverless |-> sl, existing_mappings |-> em,
                  index_open |-> TRUE, op |-> "none", mappings |-> Dict(EmptyItems),
                  index_arg |-> EmptyItems, requests |-> <<>>, warned |-> FALSE]

byoeiVars == <<index, passNo, passState, result, existing_timestamps, feed,
               fetched, seen_ids, clock, skipCalls, downloads, stream, popped,
               docsPc, attPc, attPos, bulk>>

\* management_client.py 108-113: ensure_content_index_mappings(index, mappings)
\* asks for the index's mappings.
EnsureContentIndexMappings ==
    /\ mgmt.pc = "idle"
    /\ \E m \in AllMappings :
          mgmt' = [mgmt EXCEPT !.pc = "get_mapping", !.op = "mappings",
                               !.mappings = m,
                               !.requests = <<Request("get_mapping", NoArgs)>>]
    /\ UNCHANGED <<byoeiVars, agent>>

\* management_client.py 111-134: get_mapping raised (nothing catches it), or
\* it answered and put_mapping is sent with the merged mappings.
GetMappingEnds ==
    /\ mgmt.pc = "get_mapping"
    /\ \E ok \in BOOLEAN :
          mgmt' =
            IF ok
            THEN [mgmt EXCEPT
                    !.pc = "put_mapping",
                    !.requests = Append(@, Request("put_mapping",
                        PutMappingArgs(
                            DesiredMappings(mgmt.existing_mappings, mgmt.mappings))))]
            ELSE [mgmt EXCEPT !.pc = "raised"]
    /\ UNCHANGED <<byoeiVars, agent>>

\* management_client.py 127-140: put_mapping ended; an error is logged as a
\* warning and the call returns all the same.  (How Elasticsearch applies the
\* request to the index is not part of this code.)
PutMappingEnds ==
    /\ mgmt.pc = "put_mapping"
    /\ \E ok \in BOOLEAN :
          mgmt' = [mgmt EXCEPT !.pc = "returned", !.warned = ~ok]
    /\ UNCHANGED <<byoeiVars, agent>>

\* management_client.py 143-194: ensure_content_index_settings up to its
\* first request, if it makes one.
EnsureContentIndexSettings ==
    /\ mgmt.pc = "idle"
    /\ \E idx \in IndexArgs :
          mgmt' =
            IF ~NeedsSettings(idx)
            THEN [mgmt EXCEPT !.pc = "returned", !.op = "settings",
                              !.index_arg = idx]
            ELSE IF mgmt.serverless
            THEN [mgmt EXCEPT !.pc = "settings_request", !.op = "settings",
                              !.index_arg = idx,
                              !.requests = <<Request("PUT _settings?reopen=true",
                                                     NoArgs)>>]
            ELSE [mgmt EXCEPT !.pc = "close", !.op = "settings",
                              !.index_arg = idx,
                              !.requests = <<Request("close", NoArgs)>>]
    /\ UNCHANGED <<byoeiVars, agent>>

\* management_client.py 155-166, 182-185: the single request of a serverless
\* deployment ended.
SettingsRequestEnds ==
    /\ mgmt.pc = "settings_request"
    /\ \E ok \in BOOLEAN :
          mgmt' = [mgmt EXCEPT !.pc = "returned", !.warned = ~ok]
    /\ UNCHANGED <<byoeiVars, agent>>

\* management_client.py 168-176: indices.close ended; put_settings follows,
\* unless close raised.
CloseEnds ==
    /\ mgmt.pc = "close"
    /\ \E ok \in BOOLEAN :
          mgmt' =
            IF ok
            THEN [mgmt EXCEPT !.pc = "put_settings", !.index_open = FALSE,
                              !.requests = Append(@, Request("put_settings", NoArgs))]
            ELSE [mgmt EXCEPT !.pc = "returned", !.warned = TRUE]
    /\ UNCHANGED <<byoeiVars, agent>>

\* management_client.py 172-180: indices.put_settings ended; open follows,
\* unless put_settings raised.
PutSettingsEnds ==
    /\ mgmt.pc = "put_settings"
    /\ \E ok \in BOOLEAN :
          mgmt' =
            IF ok
            THEN [mgmt EXCEPT !.pc = "open",
                              !.requests = Append(@, Request("open", NoArgs))]
            ELSE [mgmt EXCEPT !.pc = "returned", !.warned = TRUE]
    /\ UNCHANGED <<byoeiVars, agent>>

\* management_client.py 178-185: indices.open ended.
OpenEnds ==
    /\ mgmt.pc = "open"
    /\ \E ok \in BOOLEAN :
          mgmt' = [mgmt EXCEPT !.pc = "returned", !.index_open = ok,
                               !.warned = ~ok]
    /\ UNCHANGED <<byoeiVars, agent>>

NextMgmt ==
    \/ EnsureContentIndexMappings
    \/ GetMappingEnds
    \/ PutMappingEnds
    \/ EnsureContentIndexSettings
    \/ SettingsRequestEnds
    \/ CloseEnds
    \/ PutSettingsEnds
    \/ OpenEnds

SpecMgmt == InitMgmt /\ [][NextMgmt]_vars

\* ================================================================
\* agent/config.py: ConnectorsAgentConfigurationWrapper.
\* Python's None.
None == [none |-> TRUE]
\* dict.update: the entries of b over those of a.
DictUpdate(a, b) ==
    [k \in DOMAIN a \cup DOMAIN b |-> IF k \in DOMAIN b THEN b[k] ELSE a[k]]
\* A dict display {k1: v1, k2: v2, ...}: the entries are stored left to
\* right, so a key written twice keeps its last value.
RECURSIVE DictDisplay(_)
DictDisplay(pairs) ==
    IF pairs = <<>> THEN <<>>
    ELSE LET last == pairs[Len(pairs)]
         IN  DictUpdate(DictDisplay(SubSeq(pairs, 1, Len(pairs) - 1)),
                        last[1] :> last[2])

\* config.py 31-66: self._default_config, with its "service" key written twice.
default_config ==
    DictDisplay(<< <<"service", [log_level |-> "INFO"]>>,
                   <<"_force_allow_native", TRUE>>,
                   <<"service", [_use_native_connector_api_keys |-> FALSE]>>,
                   <<"native_service_types", "the native service types">> >>)

\* What a check-in of the Agent may report: a log level, and source fields
\* among hosts, api_key, username and password.
LogLevels == {"INFO", "DEBUG", "ERROR"}
Units ==
    {[log_level |-> l, fields |-> h @@ k @@ u @@ p] :
        l \in LogLevels,
        h \in Opt("hosts", {<<>>, <<"h1">>, <<"h2", "h1">>}),
        k \in Opt("api_key", {"key", "id:key"}),
        u \in Opt("username", {"elastic"}),
        p \in Opt("password", {"changeme"})}
\* source.fields.get(name), read as a condition: None and [] are false.
Has(fields, name) == name \in DOMAIN fields /\ fields[name] # <<>>
\* base64.b64encode(api_key.encode()).decode(), for the keys above.
B64 == [s \in {"id:key"} |-> "aWQ6a2V5"]
HasColon(s) == s \in DOMAIN B64

\* config.py 79-112: the configuration try_update derives from the unit.  (The
\* ValueError of line 110 cannot happen: line 93 has checked the same fields.)
AssumedConfiguration(unit) ==
    LET f == unit.fields
        has_basic_auth == Has(f, "username") /\ Has(f, "password")
        service == "service" :> [log_level |-> unit.log_level]
    IN  IF Has(f, "hosts") /\ (Has(f, "api_key") \/ has_basic_auth)
        THEN LET host == "host" :> f.hosts[1]
                 es_creds ==
                    IF Has(f, "api_key")
                    THEN host @@ "api_key" :>
                            (IF HasColon(f.api_key) THEN B64[f.api_key] ELSE f.api_key)
                    ELSE host @@ "username" :> f.username
                              @@ "password" :> f.password
             IN  service @@ "elasticsearch" :> es_creds
        ELSE service

\* config.py 129-143: config_changed; a subscript on a missing key raises
\* KeyError.
config_changed(specific_config, new_config) ==
    LET current_config == DictUpdate(default_config, specific_config)
    IN  IF "log_level" \notin DOMAIN current_config["service"] THEN "KeyError"
        ELSE IF current_config["service"].log_level # new_config["service"].log_level
        THEN "True"
        ELSE IF "elasticsearch" \notin DOMAIN current_config THEN "KeyError"
        ELSE IF current_config["elasticsearch"]
                    # DictGet(new_config, "elasticsearch", None)
        THEN "True"
        ELSE "False"

NoUnit == [none |-> TRUE]

\* config.py 24-68: a wrapper as constructed.
InitAgent ==
    /\ index = NoIndex
    /\ passNo = 0
    /\ passState = "idle"
    /\ result = <<>>
    /\ feed = <<>>
    /\ clock = 0
    /\ downloads = <<>>
    /\ NoPass
    /\ mgmt = NoClient
    /\ agent = [pc |-> "constructed", specific_config |-> <<>>, before |-> <<>>,
                unit |-> NoUnit, previous |-> NoUnit, outcome |-> "none"]

\* config.py 70-127: try_update(unit).  `before` and `previous` keep the
\* stored configuration and the unit of the call before, for the record.
TryUpdate ==
    \E unit \in Units :
        LET assumed_configuration == AssumedConfiguration(unit)
            changed == config_changed(agent.specific_config, assumed_configuration)
        IN  /\ agent' =
                 [pc |-> "called",
                  specific_config |->
                      IF changed = "True"
                      THEN DictUpdate(agent.specific_config, assumed_configuration)
                      ELSE agent.specific_config,
                  before |-> agent.specific_config,
                  unit |-> unit,
                  previous |-> agent.unit,
                  outcome |-> changed]
            /\ UNCHANGED <<byoeiVars, mgmt>>

\* config.py 129-143: config_changed(new_config) called on its own, with a
\* configuration of the shape try_update derives; it stores nothing.
ConfigChanged ==
    \E unit \in Units :
        /\ agent' =
             [pc |-> "asked",
              specific_config |-> agent.specific_config,
              before |-> agent.specific_config,
              unit |-> unit,
              previous |-> NoUnit,
              outcome |-> config_changed(agent.specific_config,
                                         AssumedConfiguration(unit))]
        /\ UNCHANGED <<byoeiVars, mgmt>>

NextAgent ==
    \/ TryUpdate
    \/ ConfigChanged

SpecAgent == InitAgent /\ [][NextAgent]_vars

\* ---------------------------------------------------------------- claims
\* What the feed has yielded in this pass, and what was put on the queue.
FeedIds == {feed[k].id : k \in 1..fetched}
Deletes == {k \in DOMAIN stream : IsDelete(stream[k])}
Upserts == {k \in DOMAIN stream : IsUpsert(stream[k])}
PrimaryUpserts(n) ==
    {k \in Upserts : stream[k].doc.src = n /\ "timestamp" \in DOMAIN stream[k].doc}
UnitsOf(n) ==
    {u \in DOMAIN downloads : downloads[u].pass = passNo /\ downloads[u].src = n}
MarkerPut(name) == \E k \in DOMAIN stream : IsMarker(stream[k], name)

\* C1: every Delete put on the queue is for an id of the snapshot that the
\* feed did not yield in this pass, and once the feed is fully consumed each
\* such id has exactly one Delete.
C1_DeletesAreSnapshotMinusFeed ==
    /\ \A k \in Deletes : stream[k]._id \in existing_ids \ FeedIds
    /\ docsPc = "done" =>
         \A i \in existing_ids \ FeedIds :
             Cardinality({k \in Deletes : stream[k]._id = i}) = 1

\* A consumed feed that yielded one id of the snapshot and not the other,
\* with the Delete of the other on the queue.
C1_Witness ==
    /\ docsPc = "done"
    /\ fetched > 0
    /\ existing_ids \cap FeedIds # {}
    /\ \E k \in Deletes : stream[k]._id \in existing_ids \ FeedIds

\* A received document whose timestamp is the snapshot's for its id.
TokenMatches(n) ==
    /\ feed[n].ts # NoTs
    /\ feed[n].id \in existing_ids
    /\ existing_timestamps[feed[n].id] = feed[n].ts

\* C2: a document whose version token equals the snapshot's token for its id
\* has its lazy_download called with doit=False (when it has one), and gets
\* no write intent and no enrichment unit.
C2_UnchangedIsSkipped ==
    \A n \in 1..fetched :
        TokenMatches(n) =>
            /\ feed[n].dl # "none" => n \in skipCalls
            /\ \A k \in Upserts : stream[k].doc.src # n
            /\ UnitsOf(n) = {}

\* An unchanged document was skipped next to a changed one that was sent.
C2_Witness ==
    /\ \E n \in 1..fetched : TokenMatches(n) /\ n \in skipCalls
    /\ Upserts # {}

\* C3 (as claimed, for the documents that come with a lazy_download): every
\* received document whose token differs from the snapshot's, that has no
\* token, or whose id is not in the snapshot whatever its token, has exactly
\* one primary Upsert carrying a timestamp (its own, or a fresh one) and one
\* unit scheduled with that timestamp.
C3_ChangedIsUpserted ==
    \A n \in 1..fetched :
        (~TokenMatches(n) /\ feed[n].dl # "none") =>
            /\ Cardinality(PrimaryUpserts(n)) = 1
            /\ Cardinality(UnitsOf(n)) = 1
            /\ \A k \in PrimaryUpserts(n) :
                  /\ stream[k].doc.timestamp # NoTs
                  /\ feed[n].ts # NoTs => stream[k].doc.timestamp = feed[n].ts
                  /\ \A u \in UnitsOf(n) :
                        downloads[u].timestamp = stream[k].doc.timestamp

\* Items the writer has got, and the write intents among them.
GotIntents == Cardinality({k \in 1..popped : IsIntent(stream[k])})
GotMarker(name) == \E k \in 1..popped : IsMarker(stream[k], name)
WriterLeftLoop == bulk.pc \in {"gathering", "done", "failed"}

\* C4 (as claimed): the writer is out of its draining loop exactly when it
\* has got both end markers, and once both markers are on the queue and the
\* queue is drained it has finished the loop.
C4_LeavesLoopIffBothMarkers ==
    /\ WriterLeftLoop <=> (GotMarker("END_DOCS") /\ GotMarker("END_DOWNLOADS"))
    /\ (MarkerPut("END_DOCS") /\ MarkerPut("END_DOWNLOADS") /\ ~WriterLeftLoop)
          => Queue # <<>>

\* C5 (as claimed): once the writer has stopped reading, the M intents it got
\* went out in ceil(M / chunk_size) bulk calls, all full but possibly the last,
\* none empty.
C5_CeilingOfCalls ==
    WriterLeftLoop =>
        LET M == GotIntents
            n == Len(bulk.ops)
        IN  /\ n = (M + ChunkSize - 1) \div ChunkSize
            /\ \A c \in 1..n :
                  Len(bulk.ops[c].operations) =
                      2 * (IF c < n THEN ChunkSize ELSE M - ChunkSize * (n - 1))

\* C6 (as claimed): when END_DOWNLOADS is on the queue, get_docs schedules no
\* further unit, every unit of the pass has completed, and every unit that
\* returned a dict has its Upsert on the queue before the marker.
C6_DownloadsMarkerIsLast ==
    \A m \in DOMAIN stream :
        IsMarker(stream[m], "END_DOWNLOADS") =>
            /\ docsPc # "loop"
            /\ \A u \in DOMAIN downloads :
                  downloads[u].pass = passNo =>
                      /\ downloads[u].state # "pending"
                      /\ downloads[u].state = "data" =>
                            \E k \in 1..(m - 1) :
                                /\ IsUpsert(stream[k])
                                /\ stream[k]._id = downloads[u].id
                                /\ stream[k].doc.src = downloads[u].src
                                /\ "timestamp" \notin DOMAIN stream[k].doc

\* C7 (as claimed): when the feed raised, END_DOCS is on the queue.
C7_FeedErrorStillEndsDocs ==
    docsPc = "failed_feed" => MarkerPut("END_DOCS")

\* C8 (as claimed): in a second pass over an unchanged feed of documents with
\* distinct ids, each with a version token and a lazy_download, no Upsert and
\* no Delete is put on the queue and no task of the pass fails.
C8_SecondPassWritesNothing ==
    ( /\ passNo = 2
      /\ \A n \in DOMAIN feed : feed[n].ts # NoTs /\ feed[n].dl # "none"
      /\ \A n, m \in DOMAIN feed : n # m => feed[n].id # feed[m].id )
    => /\ Upserts = {}
       /\ Deletes = {}
       /\ docsPc \notin {"failed_feed", "failed_call"}
       /\ attPc # "failed"
       /\ bulk.pc # "failed"
       /\ passState # "raised"

\* C9 (as claimed): the value async_bulk returns gives, per operation type,
\* the number of intents written in the pass (a missing key read as 0).
C9_ResultCounts ==
    passState = "returned" =>
        /\ DictGet(result, "update", 0) = Cardinality(Upserts)
        /\ DictGet(result, "delete", 0) = Cardinality(Deletes)

\* C10 (as claimed): when get_attachments has awaited a unit that raised, it
\* has not failed and async_bulk has not raised for it.
C10_UnitErrorIsEmptyResult ==
    (attPos \in DOMAIN downloads /\ downloads[attPos].state = "raised")
        => attPc # "failed"

\* C11 (as claimed; SpecNoIndex, where the pass starts on an index that does
\* not exist): the snapshot is empty and the read raised nothing, no Delete is
\* put, and every received document (that comes with a lazy_download) has
\* its primary Upsert on the queue.
C11_NoIndexUpsertsAll ==
    (passNo = 1 /\ passState # "raised_scan") =>
        /\ existing_timestamps = <<>>
        /\ Deletes = {}
        /\ \A n \in 1..fetched :
              feed[n].dl # "none" => Cardinality(PrimaryUpserts(n)) = 1

\* C12: when the snapshot read raised (an error other than index-not-found),
\* async_bulk has raised with no feed document consumed, nothing put on the
\* queue, no enrichment unit scheduled, no bulk call issued and none of the
\* three tasks created.
C12_SnapshotErrorTouchesNothing ==
    passState = "raised_scan" =>
        /\ fetched = 0 /\ feed = <<>> /\ seen_ids = {}
        /\ stream = <<>> /\ popped = 0
        /\ downloads = <<>>
        /\ bulk.ops = <<>> /\ bulk.batch = <<>>
        /\ docsPc = "idle" /\ attPc = "idle" /\ bulk.pc = "idle"

\* The read of an index that holds documents failed.
C12_Witness ==
    /\ passState = "raised_scan"
    /\ DOMAIN Snapshot(index) # {}

\* C13 (as claimed): the queue has a finite capacity, and the items waiting
\* in it never outnumber that capacity.
C13_QueueIsBounded ==
    Queue # <<>> => (QueueMaxsize > 0 /\ Len(Queue) <= QueueMaxsize)

\* C14 (as claimed): once async_bulk has raised because get_docs or the
\* writer failed, no task of the pass is still running or waiting on the
\* queue.
C14_FailureCancelsSiblings ==
    ( /\ passState = "raised"
      /\ docsPc \in {"failed_feed", "failed_call"} \/ bulk.pc = "failed" )
    => /\ docsPc # "loop"
       /\ attPc # "run"
       /\ bulk.pc \notin {"draining", "gathering"}

\* Intent d went out in bulk call c with its action line at position j (and,
\* for an Upsert, its body right after).
SentAt(d, c, j) ==
    LET operations == bulk.ops[c].operations
    IN  /\ j \in DOMAIN operations
        /\ operations[j] = [action |-> d._op_type, _id |-> d._id]
        /\ IsUpsert(d) =>
              /\ j + 1 \in DOMAIN operations
              /\ operations[j + 1] = [doc |-> d.doc, doc_as_upsert |-> TRUE]
Sendings(d) ==
    {cj \in (DOMAIN bulk.ops) \X (1..(2 * ChunkSize)) : SentAt(d, cj[1], cj[2])}

\* C18 (as claimed): once the writer has stopped, every intent put on the
\* queue is in exactly one bulk call, and two intents of one call are there
\* in the order they were put.
C18_EachIntentInOneCall ==
    WriterLeftLoop =>
        /\ \A k \in DOMAIN stream :
              IsIntent(stream[k]) => Cardinality(Sendings(stream[k])) = 1
        /\ \A k1, k2 \in DOMAIN stream :
              (IsIntent(stream[k1]) /\ IsIntent(stream[k2]) /\ k1 < k2) =>
                  \A a \in Sendings(stream[k1]), b \in Sendings(stream[k2]) :
                      a[1] = b[1] => a[2] < b[2]

\* C19: once the writer is past its loop nothing is left in its batch, and
\* when async_bulk has returned every bulk call of the pass has completed.
C19_ReturnMeansNoCallInFlight ==
    /\ bulk.pc \in {"gathering", "done"} => bulk.batch = <<>>
    /\ passState = "returned" =>
          /\ bulk.pc = "done"
          /\ \A c \in DOMAIN bulk.ops : bulk.ops[c].state = "done"

\* A pass that returned after a full call and a flushed partial one.
C19_Witness ==
    /\ passState = "returned"
    /\ \E c1, c2 \in DOMAIN bulk.ops :
          /\ Len(bulk.ops[c1].operations) = 2 * ChunkSize
          /\ Len(bulk.ops[c2].operations) < 2 * ChunkSize

\* Queue positions of what get_docs put (primary Upserts, Deletes, its
\* marker) and of what get_attachments put.
DocsPuts ==
    {k \in DOMAIN stream :
        \/ IsDelete(stream[k])
        \/ IsMarker(stream[k], "END_DOCS")
        \/ IsUpsert(stream[k]) /\ "timestamp" \in DOMAIN stream[k].doc}
DownloadsPuts == DOMAIN stream \ DocsPuts
LastOf(S, name) ==
    /\ Cardinality({k \in S : IsMarker(stream[k], name)}) = 1
    /\ \A k \in S : IsMarker(stream[k], name) => \A j \in S : j <= k

\* C20 (as claimed): when a producer of the pass has ended, its marker is on
\* the queue exactly once and is the last item that producer put.
C20_OneMarkerEachAndLast ==
    /\ docsPc \in {"done", "failed_feed", "failed_call"} =>
          LastOf(DocsPuts, "END_DOCS")
    /\ attPc \in {"done", "failed"} => LastOf(DownloadsPuts, "END_DOWNLOADS")

\* ---------------------------------------------------------------- claims
\* on es/management_client.py (SpecMgmt).
\* Every key of mappings document e, at every depth, is in s with e's value.
RECURSIVE Preserved(_, _)
Preserved(e, s) ==
    \A k \in DOMAIN e.items :
        /\ k \in DOMAIN s.items
        /\ IF IsMapping(e.items[k])
           THEN IsMapping(s.items[k]) /\ Preserved(e.items[k], s.items[k])
           ELSE s.items[k] = e.items[k]
\* Every key of r that e does not hold, at every depth e and r share, is in s
\* with r's value.
RECURSIVE Added(_, _, _)
Added(e, r, s) ==
    \A k \in DOMAIN r.items :
        IF k \notin DOMAIN e.items
        THEN k \in DOMAIN s.items /\ s.items[k] = r.items[k]
        ELSE (IsMapping(e.items[k]) /\ IsMapping(r.items[k])) =>
                /\ k \in DOMAIN s.items
                /\ IsMapping(s.items[k])
                /\ Added(e.items[k], r.items[k], s.items[k])

PutMappingSent == mgmt.op = "mappings" /\ Len(mgmt.requests) = 2
SentMappings == mgmt.requests[2].args
\* The top-level keys put_mapping is given, and a document cut down to them.
SentKeys == {"dynamic", "dynamic_templates", "properties"}
OnSentKeys(d) == Dict([k \in DOMAIN d.items \cap SentKeys |-> d.items[k]])

\* C15 (as claimed): in the mappings sent, every key of the existing mappings
\* keeps its value at every depth, and every key only the requested mappings
\* hold is added.
C15_MergeIsAdditive ==
    PutMappingSent =>
        /\ Preserved(mgmt.existing_mappings, SentMappings)
        /\ Added(mgmt.existing_mappings, mgmt.mappings, SentMappings)

\* C15 (amended): put_mapping is given the three keys dynamic,
\* dynamic_templates and properties and no other top-level key; under these
\* three, every key of the existing mappings keeps its value at every depth
\* (a nested mapping against a scalar included), and every key only the
\* requested mappings hold is added.
C15_SentKeysMergeAdditively ==
    PutMappingSent =>
        /\ DOMAIN SentMappings.items = SentKeys
        /\ Preserved(OnSentKeys(mgmt.existing_mappings), SentMappings)
        /\ Added(OnSentKeys(mgmt.existing_mappings), OnSentKeys(mgmt.mappings),
                 SentMappings)

\* Sent: a merge where the index holds a scalar for a field the request
\* nests, a definition the request extends with a type, and lacks a field
\* the request brings.
C15_Witness ==
    /\ PutMappingSent
    /\ mgmt.existing_mappings.items =
          "properties" :> Dict("title" :> Scalar("text") @@ "body" :> Dict(EmptyItems))
    /\ mgmt.mappings.items =
          "properties" :> Dict("title" :> Dict("type" :> Scalar("keyword"))
                               @@ "body" :> Dict("type" :> Scalar("keyword")))
          @@ "dynamic" :> Scalar("strict")

\* The index argument shows analysis settings.
HasAnalysis(idx) ==
    /\ "settings" \in DOMAIN idx
    /\ "index" \in DOMAIN idx.settings
    /\ "analysis" \in DOMAIN idx.settings.index
RequestNames == [i \in 1..Len(mgmt.requests) |-> mgmt.requests[i].name]
\* The requests made so far are the first ones of names, in that order.
RequestsBegin(names) ==
    /\ Len(mgmt.requests) <= Len(names)
    /\ \A i \in 1..Len(mgmt.requests) : RequestNames[i] = names[i]

C17_UpdatesExactlyOnChange ==
    agent.pc = "called" =>
        /\ agent.outcome \in {"True", "False"}
        /\ agent.outcome = "True" =>
              agent.specific_config =
                  DictUpdate(agent.before, AssumedConfiguration(agent.unit))
        /\ agent.outcome = "False" => agent.specific_config = agent.before
        /\ agent.previous = agent.unit => agent.outcome = "False"

\* ---------------------------------------------------------------- claims
\* on connectors/byoei.py, continued.
\* C21 (as claimed): the writer never fails, and in every bulk call an update
\* action line is followed by a body holding the document and the upsert
\* flag, a delete action line by no body.
C21_WriterTurnsIntentsIntoActions ==
    /\ bulk.pc # "failed"
    /\ \A c \in DOMAIN bulk.ops :
          LET operations == bulk.ops[c].operations
          IN  \A j \in DOMAIN operations :
                  "action" \in DOMAIN operations[j] =>
                      IF operations[j].action = "update"
                      THEN /\ j + 1 \in DOMAIN operations
                           /\ DOMAIN operations[j + 1] = {"doc", "doc_as_upsert"}
                           /\ operations[j + 1].doc_as_upsert
                      ELSE j + 1 \in DOMAIN operations =>
                              "action" \in DOMAIN operations[j + 1]

\* C23 (as claimed; SpecTwice): in a second pass, the unit get_attachments
\* awaited last is a unit scheduled in that pass.
C23_DrainsOnlyItsOwnUnits ==
    (passNo >= 2 /\ attPos \in DOMAIN downloads) =>
        downloads[attPos].pass = passNo

\* C25 (as claimed): a received document whose lazy_download is None does not
\* make get_docs fail; unchanged, it is skipped; changed (leaving aside the
\* new id with an empty timestamp), it has its one primary Upsert; either way
\* no unit is scheduled for it.
C25_NoDownloadIsHandled ==
    \A n \in 1..fetched :
        feed[n].dl = "none" =>
            /\ docsPc # "failed_call"
            /\ UnitsOf(n) = {}
            /\ TokenMatches(n) => \A k \in Upserts : stream[k].doc.src # n
            /\ (~TokenMatches(n) /\ feed[n].ts # "") =>
                  Cardinality(PrimaryUpserts(n)) = 1

\* The documents of the index field by field, to follow what overlapping
\* bulk calls do to one id.  byoei.py 87-96: an update with doc_as_upsert
\* writes the fields of its body over the stored document, or creates it; a
\* delete removes it.
NoDoc == [absent |-> TRUE]
MergeDoc(stored, doc) ==
    IF stored = NoDoc THEN doc
    ELSE [f \in DOMAIN stored \cup DOMAIN doc |->
             IF f \in DOMAIN doc THEN doc[f] ELSE stored[f]]
RECURSIVE ApplyCall(_, _)
ApplyCall(content, operations) ==
    IF operations = <<>> THEN content
    ELSE LET head == operations[1]
         IN  IF head.action = "delete"
             THEN ApplyCall([content EXCEPT ![head._id] = NoDoc],
                            SubSeq(operations, 2, Len(operations)))
             ELSE ApplyCall([content EXCEPT ![head._id] = MergeDoc(@, operations[2].doc)],
                            SubSeq(operations, 3, Len(operations)))
\* The index the pass found, as the snapshot shows it.
StartContent ==
    [i \in Ids |-> IF i \in existing_ids
                   THEN [timestamp |-> existing_timestamps[i]] ELSE NoDoc]
\* The index once the bulk calls dispatched so far completed in this order.
RECURSIVE ApplyCalls(_, _, _)
ApplyCalls(content, order, i) ==
    IF i > Len(order) THEN content
    ELSE ApplyCalls(ApplyCall(content, bulk.ops[order[i]].operations), order, i + 1)
FinalContent(order) == ApplyCalls(StartContent, order, 1)
TimestampOf(stored) ==
    IF stored = NoDoc THEN Absent
    ELSE IF "timestamp" \in DOMAIN stored THEN stored.timestamp
    ELSE NoField

UniqueIds == \A n, m \in 1..fetched : n # m => feed[n].id # feed[m].id
UpsertsOf(i, primary) ==
    {k \in Upserts : /\ stream[k]._id = i
                     /\ ("timestamp" \in DOMAIN stream[k].doc) = primary}
CallOrders == Orders(DOMAIN bulk.ops)

C24_IndexOpenAgain ==
    (mgmt.op = "settings" /\ ~mgmt.serverless /\ mgmt.pc = "returned") =>
        mgmt.index_open

\* C26 (as claimed; SpecAgent): on a wrapper that has stored nothing yet,
\* try_update and config_changed end with a boolean.
C26_FreshWrapperAnswers ==
    (agent.pc \in {"called", "asked"} /\ DOMAIN agent.before = {}) =>
        agent.outcome \in {"True", "False"}

====
